---- MODULE Spec2Model ----
(***************************************************************************)
(* Model of the AVM2 `Date` class of core/src/avm2/globals/date.rs:        *)
(* the DateObject's optional instant, the DateAdjustment builder with its  *)
(* cascading "argument not supplied" rule, calculate/apply, the instance   *)
(* constructor, setTime, the component setters and getters, the static UTC *)
(* factory and the string methods.                                         *)
(*                                                                         *)
(* Encoding.  TLC integers are 32 bits wide, epoch milliseconds are not,   *)
(* so an instant is the pair [d, ms]: whole days since 1970-01-01 (floor)  *)
(* and the millisecond of that day, 0..MsPerDay-1.  The pair is in         *)
(* bijection with the i64 epoch-millisecond count d * MsPerDay + ms.  An   *)
(* f64 is the record [k, d, ms, h]: k is "num", "nan", "inf" or "ninf",    *)
(* and a finite value is d * MsPerDay + ms + h/2 with h in {0, 1}.         *)
(***************************************************************************)
EXTENDS Integers, Sequences, FiniteSets, TLC

VARIABLES date_time, timezone, ret, last, prev, calls, fault, adj, fed, written

vars == <<date_time, timezone, ret, last, prev, calls, fault, adj, fed, written>>

(***************************************************************************)
(* Bounds of the model.                                                    *)
(***************************************************************************)
\* calls of entry points made in one behaviour
MaxCalls == 1

(***************************************************************************)
(* Units and the calendar range of the chrono library.                     *)
(***************************************************************************)
MsPerSecond == 1000
MsPerMinute == 60000
MsPerHour == 3600000
MsPerDay == 86400000
\* chrono::naive::MIN_DATE / MAX_DATE: January 1, -262144 .. December 31, 262143
MinYear == -262144
MaxYear == 262143

(***************************************************************************)
(* f64 values and host Values.                                             *)
(***************************************************************************)
NaN == [k |-> "nan", d |-> 0, ms |-> 0, h |-> 0]
PosInf == [k |-> "inf", d |-> 0, ms |-> 0, h |-> 0]
NegInf == [k |-> "ninf", d |-> 0, ms |-> 0, h |-> 0]
\* Value::Undefined, and an object whose conversion to a number raises an error
Undefined == [k |-> "undef", d |-> 0, ms |-> 0, h |-> 0]
Throwing == [k |-> "throw", d |-> 0, ms |-> 0, h |-> 0]
\* the f64 of a small integer n, and of n + 0.5
Num(n) == [k |-> "num", d |-> n \div MsPerDay, ms |-> n % MsPerDay, h |-> 0]
Half(n) == [k |-> "num", d |-> n \div MsPerDay, ms |-> n % MsPerDay, h |-> 1]
\* the f64 of the epoch-millisecond count of an instant (`as f64`)
NumOfInstant(t) == [k |-> "num", d |-> t.d, ms |-> t.ms, h |-> 0]

\* a finite f64 beyond the i64 range, such as 1e300 (d = 1) or -1e300
\* (d = -1): `as i64` saturates it to i64::MAX or i64::MIN
PosHuge == [k |-> "big", d |-> 1, ms |-> 0, h |-> 0]
NegHuge == [k |-> "big", d |-> -1, ms |-> 0, h |-> 0]

is_finite(x) == x.k \in {"num", "big"}

\* Value::coerce_to_number, for the Values of the model: a number is itself,
\* undefined is NaN; a Throwing value has no result (see Coerces)
coerce_to_number(v) == IF v.k = "undef" THEN NaN ELSE v
Coerces(v) == v.k # "throw"

\* `x as i64` rounding toward minus infinity
AsI64_floor(x) == [d |-> x.d, ms |-> x.ms]
\* `x as i64` of a finite f64 within the i64 range: truncation toward zero,
\* as a [d, ms] pair
AsI64(x) ==
  IF x.h = 1 /\ x.d < 0
    THEN [d |-> x.d + (x.ms + 1) \div MsPerDay, ms |-> (x.ms + 1) % MsPerDay]
    ELSE [d |-> x.d, ms |-> x.ms]
\* the same as a TLC integer, for component-sized values
IntOfI64(p) ==
  IF p.d < 0 THEN (p.d + 1) * MsPerDay + (p.ms - MsPerDay)
  ELSE p.d * MsPerDay + p.ms
AsInt(x) == IntOfI64(AsI64(x))

\* whether the [d, ms] pair p lies in the i32 range -2^31 .. 2^31 - 1, where
\* 2^31 = 24 * MsPerDay + 73883648
PairFitsI32(p) ==
  \/ (-24 <= p.d /\ p.d <= 23)
  \/ (p.d = 24 /\ p.ms < 73883648)
  \/ (p.d = -25 /\ p.ms >= MsPerDay - 73883648)
FitsI32(x) == x.k = "num" /\ PairFitsI32(AsI64(x))
\* the pair p less q * 2^32, where 2^32 = 49 * MsPerDay + 61367296
LessWraps(p, q) ==
  [d |-> p.d - 49 * q + (p.ms - 61367296 * q) \div MsPerDay,
   ms |-> (p.ms - 61367296 * q) % MsPerDay]
\* `n as i32` of the i64 n held as the pair p, for |n| < 9 * 2^31
PairAsI32(p) ==
  IntOfI64(LessWraps(p, CHOOSE q \in -4..4 : PairFitsI32(LessWraps(p, q))))
\* `(x as i64) as i32` of a finite f64: i64::MAX gives -1, i64::MIN gives 0
Low32(x) ==
  IF x.k = "big" THEN (IF x.d > 0 THEN -1 ELSE 0) ELSE PairAsI32(AsI64(x))
\* a.wrapping_add(b) as i32, of i64 values known modulo 2^32 by their i32
WrapAdd(a, b) ==
  IF a >= 0 /\ b >= 0 /\ a > 2147483647 - b
    THEN (a - 2147483647) + (b - 2147483647) - 2
  ELSE IF a < 0 /\ b < 0 /\ a < (-2147483647 - 1) - b
    THEN (a + 2147483647) + (b + 2147483647) + 2
  ELSE a + b

\* Option<i64> results of check_value: sat is 1 for i64::MAX and -1 for
\* i64::MIN, which v cannot hold
SomeI(n) == [ok |-> TRUE, v |-> n, sat |-> 0]
NoneI == [ok |-> FALSE, v |-> 0, sat |-> 0]
Saturated(x) == [ok |-> TRUE, v |-> 0, sat |-> x.d]

\* Option<DateTime<Utc>>: None is the Invalid Date
None == [some |-> FALSE, d |-> 0, ms |-> 0]
\* calculate not returning: Duration::days, hours, minutes or seconds
\* panicking on a value out of the bounds of Duration
Aborted == [some |-> FALSE, d |-> 0, ms |-> 0, aborted |-> TRUE]
Some(t) == [some |-> TRUE, d |-> t.d, ms |-> t.ms]
Inst(days, millis) == [d |-> days, ms |-> millis]

(***************************************************************************)
(* Proleptic Gregorian calendar (chrono NaiveDate).                        *)
(***************************************************************************)
IsLeap(y) == (y % 4 = 0 /\ y % 100 # 0) \/ y % 400 = 0

\* NaiveDate::from_ymd(y, m, dd) as days since the epoch, m in 1..12: yy is
\* the year counted from March, mp the month counted from March
DaysOfShifted(yy, mp, dd) ==
  (yy \div 400) * 146097
    + (yy % 400) * 365 + (yy % 400) \div 4 - (yy % 400) \div 100
    + (153 * mp + 2) \div 5 + dd - 1 - 719468
DaysFromCivil(y, m, dd) ==
  DaysOfShifted(IF m <= 2 THEN y - 1 ELSE y, IF m > 2 THEN m - 3 ELSE m + 9, dd)

\* Datelike::year / month0 / day of the date that is z days after the epoch:
\* the 400-year era, the day of the era, the year of the era, the day of the
\* year counted from March 1 and the month counted from March
EraOf(zz) == zz \div 146097
DoeOf(zz) == zz - EraOf(zz) * 146097
YoeOf(doe) == (doe - doe \div 1460 + doe \div 36524 - doe \div 146096) \div 365
DoyOf(doe, yoe) == doe - (365 * yoe + yoe \div 4 - yoe \div 100)
MpOf(doy) == (5 * doy + 2) \div 153
CivilOfParts(era, yoe, doy, mp) ==
  [year |-> yoe + era * 400 + (IF mp >= 10 THEN 1 ELSE 0),
   month0 |-> (IF mp < 10 THEN mp + 3 ELSE mp - 9) - 1,
   day |-> doy - (153 * mp + 2) \div 5 + 1]
CivilOfDoy(era, yoe, doy) == CivilOfParts(era, yoe, doy, MpOf(doy))
CivilOfYoe(era, doe, yoe) == CivilOfDoy(era, yoe, DoyOf(doe, yoe))
CivilOfDoe(era, doe) == CivilOfYoe(era, doe, YoeOf(doe))
CivilFromDays(z) == CivilOfDoe(EraOf(z + 719468), DoeOf(z + 719468))

\* the weekday numbered from Monday = 1 to Sunday = 7
WeekdayOfDays_from_monday(z) == ((z + 3) % 7) + 1
\* Weekday::num_days_from_sunday; 1970-01-01 was a Thursday
WeekdayOfDays(z) == (z + 4) % 7

MinDays == DaysFromCivil(MinYear, 1, 1)
MaxDays == DaysFromCivil(MaxYear, 12, 31)
\* the instants a chrono DateTime can hold
Representable(t) == MinDays <= t.d /\ t.d <= MaxDays

\* instant + milliseconds, |delta| < 2^30
AddMs(t, delta) ==
  [d |-> t.d + (t.ms + delta) \div MsPerDay, ms |-> (t.ms + delta) % MsPerDay]
\* instant + Duration, the duration being a [d, ms] pair
AddDur(t, dur) ==
  [d |-> t.d + dur.d + (t.ms + dur.ms) \div MsPerDay, ms |-> (t.ms + dur.ms) % MsPerDay]
Before(a, b) == a.d < b.d \/ (a.d = b.d /\ a.ms < b.ms)

(***************************************************************************)
(* Timezones.  A timezone is [std, dst, from, to]: its offset from UTC, in *)
(* seconds east, is dst at the instants t with from <= t < to and std at   *)
(* every other instant.  A fixed-offset zone has std = dst.                *)
(***************************************************************************)
Utc == [std |-> 0, dst |-> 0, from |-> Inst(0, 0), to |-> Inst(0, 0)]
\* a fixed offset of five hours west of Greenwich
FixedWest == [std |-> -18000, dst |-> -18000, from |-> Inst(0, 0), to |-> Inst(0, 0)]
\* one hour east in winter, two in summer: the clocks go forward on
\* 2024-03-10 at 02:00 local time (01:00 UTC) and back on 2024-11-01 at
\* 01:00 local time (2024-10-31 23:00 UTC), so that local 00:00..01:00 of
\* November 1 happens twice
DstZone == [std |-> 3600, dst |-> 7200,
            from |-> Inst(DaysFromCivil(2024, 3, 10), MsPerHour),
            to |-> Inst(DaysFromCivil(2024, 10, 31), 23 * MsPerHour)]
\* nine hours west in winter, eight in summer: the clocks go forward on
\* 2023-08-01 at 00:00 local time (09:00 UTC), so that local 00:00..01:00 of
\* August 1 does not happen, and back on 2024-03-21 at 02:00 local time
\* (10:00 UTC), so that local 01:00..02:00 of March 21 happens twice
GapZone == [std |-> -32400, dst |-> -28800,
            from |-> Inst(DaysFromCivil(2023, 8, 1), 9 * MsPerHour),
            to |-> Inst(DaysFromCivil(2024, 3, 21), 10 * MsPerHour)]
\* what locale.get_timezone() may return
LocalTimeZones == {Utc, FixedWest, DstZone, GapZone}
IsFixed(tz) == tz.std = tz.dst

\* TimeZone::offset_from_utc_datetime, seconds east of UTC
OffsetAt(tz, t) ==
  IF ~Before(t, tz.from) /\ Before(t, tz.to) THEN tz.dst ELSE tz.std

\* TimeZone::from_local_datetime: the instants whose local time in tz is the
\* naive local time; none in a gap, two in an overlap
from_local_datetime(tz, local) ==
  {t \in {AddMs(local, -(o * MsPerSecond)) : o \in {tz.std, tz.dst}} :
      AddMs(t, OffsetAt(tz, t) * MsPerSecond) = local}

\* DateTime::with_timezone followed by the Datelike / Timelike accessors:
\* the civil fields of instant t as seen in tz
ViewOfCivil(civil, local, off) ==
  [year |-> civil.year, month0 |-> civil.month0, day |-> civil.day,
   hour |-> local.ms \div MsPerHour,
   minute |-> (local.ms % MsPerHour) \div MsPerMinute,
   second |-> (local.ms % MsPerMinute) \div MsPerSecond,
   millisecond |-> local.ms % MsPerSecond,
   weekday |-> WeekdayOfDays(local.d),
   offset |-> off]
ViewOfLocal(local, off) == ViewOfCivil(CivilFromDays(local.d), local, off)
ViewAtOffset(t, off) == ViewOfLocal(AddMs(t, off * MsPerSecond), off)
View(t, tz) == ViewAtOffset(t, OffsetAt(tz, t))

(***************************************************************************)
(* DateAdjustment.                                                         *)
(***************************************************************************)
\* a slot that holds None (keep the current field)
Unspecified == [k |-> "none", d |-> 0, ms |-> 0, h |-> 0]
\* args.get(i) beyond the end of the argument list
Absent == [k |-> "absent", d |-> 0, ms |-> 0, h |-> 0]

Fields == <<"year", "month", "day", "hour", "minute", "second", "millisecond">>

\* DateAdjustment::new; err records an Err that `?` has propagated
\* DateAdjustment_new with the two-digit-year closure installed from the start
DateAdjustment_new_adjusting ==
  [year_type |-> "Adjust", year |-> Unspecified, month |-> Unspecified,
   day |-> Unspecified, hour |-> Unspecified, minute |-> Unspecified,
   second |-> Unspecified, millisecond |-> Unspecified,
   ignore_next |-> FALSE, err |-> FALSE]
DateAdjustment_new ==
  [year_type |-> "Full", year |-> Unspecified, month |-> Unspecified,
   day |-> Unspecified, hour |-> Unspecified, minute |-> Unspecified,
   second |-> Unspecified, millisecond |-> Unspecified,
   ignore_next |-> FALSE, err |-> FALSE]

adjust_year(a) == [a EXCEPT !.year_type = "Adjust"]

\* the body shared by DateAdjustment::year, month, day, hour, minute, second
\* and millisecond: value is Absent for None, a Value otherwise
\* Feed without the latch: a value given after an omitted one is still taken
Feed_unlatched(a, f, value) ==
  IF a.err THEN a
  ELSE IF value = Absent THEN [a EXCEPT ![f] = Unspecified, !.ignore_next = TRUE]
  ELSE IF ~Coerces(value) THEN [a EXCEPT !.err = TRUE]
  ELSE [a EXCEPT ![f] = coerce_to_number(value)]
Feed(a, f, value) ==
  IF a.err \/ a.ignore_next THEN a
  ELSE IF value = Absent THEN [a EXCEPT ![f] = Unspecified, !.ignore_next = TRUE]
  ELSE IF ~Coerces(value) THEN [a EXCEPT !.err = TRUE]
  ELSE [a EXCEPT ![f] = coerce_to_number(value)]

\* args.get(i) reading undefined beyond the end of the argument list
ArgGet_undefined(args, i) == IF i < Len(args) THEN args[i + 1] ELSE Undefined
\* args.get(i), i counted from 0
ArgGet(args, i) == IF i < Len(args) THEN args[i + 1] ELSE Absent

RECURSIVE FeedAll(_, _, _, _)
\* the chain .f1(args.get(0))?.f2(args.get(1))?... of an entry point that
\* feeds the fields fs in order
FeedAll(a, fs, args, i) ==
  IF i >= Len(fs) THEN a
  ELSE FeedAll(Feed(a, fs[i + 1], ArgGet(args, i)), fs, args, i + 1)

\* YearType::adjust with the closure the constructor installs
\* YearAdjust with the bound of the two-digit years off by one
YearAdjust_upto100(year_type, y) ==
  IF year_type = "Adjust" /\ y <= 100 THEN y + 1900 ELSE y
YearAdjust(year_type, y) ==
  IF year_type = "Adjust" /\ y < 100 THEN y + 1900 ELSE y

\* check_value resolving an omitted field to zero, not to the current field
check_value_from_zero(specified, current) ==
  IF specified.k = "none" THEN SomeI(0)
  ELSE IF specified.k = "big" THEN Saturated(specified)
  ELSE IF is_finite(specified) THEN SomeI(AsInt(specified))
  ELSE NoneI
\* check_value adding the value given to the current field
check_value_added(specified, current) ==
  IF specified.k = "none" THEN SomeI(current)
  ELSE IF specified.k = "big" THEN Saturated(specified)
  ELSE IF is_finite(specified) THEN SomeI(current + AsInt(specified))
  ELSE NoneI
\* check_value taking a non-finite value for an omitted one
check_value_lenient(specified, current) ==
  IF specified.k = "none" THEN SomeI(current)
  ELSE IF specified.k = "big" THEN Saturated(specified)
  ELSE IF is_finite(specified) THEN SomeI(AsInt(specified))
  ELSE SomeI(current)
check_value(specified, current) ==
  IF specified.k = "none" THEN SomeI(current)
  ELSE IF specified.k = "big" THEN Saturated(specified)
  ELSE IF is_finite(specified) THEN SomeI(AsInt(specified))
  ELSE NoneI

\* check_mapped_month with the remainder of the truncating division (`%`)
check_mapped_month_truncating(specified, current) ==
  IF specified.k = "none" THEN SomeI(current)
  ELSE IF specified.k = "big" THEN SomeI(IF specified.d > 0 THEN 7 ELSE -8)
  ELSE IF is_finite(specified)
    THEN SomeI(IF AsInt(specified) < 0 THEN -((-AsInt(specified)) % 12)
               ELSE AsInt(specified) % 12)
  ELSE NoneI
\* check_mapped_value for the month (map = rem_euclid(12)):
\* i64::MAX.rem_euclid(12) = 7 and i64::MIN.rem_euclid(12) = 4
check_mapped_month(specified, current) ==
  IF specified.k = "none" THEN SomeI(current)
  ELSE IF specified.k = "big" THEN SomeI(IF specified.d > 0 THEN 7 ELSE 4)
  ELSE IF is_finite(specified) THEN SomeI(AsInt(specified) % 12)
  ELSE NoneI

\* check_mapped_value for the year (map = year_type.adjust); calculate
\* reads the i64 it returns through `as i32` only, so a year outside the
\* i32 range is held by its low 32 bits, the closure having added its 1900
\* to a year below 100
check_mapped_year(specified, year_type, current) ==
  IF specified.k = "none" THEN SomeI(current)
  ELSE IF FitsI32(specified) THEN SomeI(YearAdjust(year_type, AsInt(specified)))
  ELSE IF is_finite(specified)
    THEN SomeI(WrapAdd(Low32(specified),
                       IF year_type = "Adjust" /\ specified.d < 0 THEN 1900 ELSE 0))
  ELSE NoneI

\* month.flatten().map(|v| v as i64).unwrap_or_default().div_euclid(12)
\* month_rem carrying years for a negative month only
month_rem_dropped(a) ==
  IF a.month.k = "num" /\ AsInt(a.month) < 0 THEN AsInt(a.month) \div 12 ELSE 0
month_rem(a) ==
  IF a.month.k = "num" THEN AsInt(a.month) \div 12
  \* the low 32 bits of i64::MAX.div_euclid(12) and i64::MIN.div_euclid(12)
  ELSE IF a.month.k = "big"
    THEN (IF a.month.d > 0 THEN -1431655766 ELSE 1431655765)
  ELSE 0

\* Duration::days(day - 1) + hours + minutes + seconds + milliseconds
DurationParts(days, rest) == [d |-> days + rest \div MsPerDay, ms |-> rest % MsPerDay]
\* DurationOf counting the day of the month from zero
DurationOf_from_zero(dy, hr, mi, sc, ml) ==
  DurationParts(dy, hr * MsPerHour + mi * MsPerMinute + sc * MsPerSecond + ml)
DurationOf(dy, hr, mi, sc, ml) ==
  DurationParts(dy - 1, hr * MsPerHour + mi * MsPerMinute + sc * MsPerSecond + ml)

\* Anchor taking midnight in UTC whatever the timezone
Anchor_utc(tz, year, month) ==
  IF year < MinYear \/ year > MaxYear THEN {}
  ELSE {Inst(DaysFromCivil(year, month, 1), 0)}
\* tz.ymd_opt(year, month, 1).and_hms_opt(0, 0, 0): the instants of local
\* midnight of the first of the month; LocalResult::Single iff exactly one
Anchor(tz, year, month) ==
  IF year < MinYear \/ year > MaxYear THEN {}
  ELSE from_local_datetime(tz, Inst(DaysFromCivil(year, month, 1), 0))

\* the tail of calculate: LocalResult::Single(Some(result)) or None
Checked(result) == IF Representable(result) THEN Some(result) ELSE None
\* AddToAnchor taking the earlier instant of a local midnight that happens
\* twice
AddToAnchor_earliest(anchor, duration) ==
  IF anchor = {} THEN None
  ELSE Checked(AddDur(CHOOSE t \in anchor : \A u \in anchor : ~Before(u, t), duration))
AddToAnchor(anchor, duration) ==
  IF Cardinality(anchor) # 1 THEN None
  ELSE Checked(AddDur(CHOOSE t \in anchor : TRUE, duration))

\* calculate once the seven fields are resolved
\* CalculateFrom handing the month to ymd_opt as the getters count it
CalculateFrom_month0(a, tz, mo, yr, dy, hr, mi, sc, ml) ==
  IF ~mo.ok \/ ~yr.ok \/ ~dy.ok \/ ~hr.ok \/ ~mi.ok \/ ~sc.ok \/ ~ml.ok
    THEN None
  ELSE IF dy.sat # 0 \/ hr.sat # 0 \/ mi.sat # 0 \/ sc.sat # 0
    THEN Aborted
  ELSE AddToAnchor(Anchor(tz, WrapAdd(yr.v, month_rem(a)), mo.v),
                   DurationOf(dy.v, hr.v, mi.v, sc.v, ml.v))
\* the `?` of every check comes first; then the Duration constructors, which
\* panic on i64::MAX or i64::MIN days, hours, minutes or seconds; then the
\* year, `wrapping_add(month_rem) as i32`, goes to ymd_opt
CalculateFrom(a, tz, mo, yr, dy, hr, mi, sc, ml) ==
  IF ~mo.ok \/ ~yr.ok \/ ~dy.ok \/ ~hr.ok \/ ~mi.ok \/ ~sc.ok \/ ~ml.ok
    THEN None
  ELSE IF dy.sat # 0 \/ hr.sat # 0 \/ mi.sat # 0 \/ sc.sat # 0
    THEN Aborted
  ELSE AddToAnchor(Anchor(tz, WrapAdd(yr.v, month_rem(a)), mo.v + 1),
                   DurationOf(dy.v, hr.v, mi.v, sc.v, ml.v))

\* calculate, cur being the civil view of the current DateTime<T>
CalculateIn(a, cur, tz) ==
  CalculateFrom(a, tz,
                check_mapped_month(a.month, cur.month0),
                check_mapped_year(a.year, a.year_type, cur.year),
                check_value(a.day, cur.day),
                check_value(a.hour, cur.hour),
                check_value(a.minute, cur.minute),
                check_value(a.second, cur.second),
                check_value(a.millisecond, cur.millisecond))

\* DateAdjustment::calculate, current being an instant viewed in tz
calculate(a, current, tz) == CalculateIn(a, View(current, tz), tz)

\* the f64 a setter returns for Option<DateTime<Utc>>
TimestampOf(dt) == IF dt.some THEN NumOfInstant(dt) ELSE NaN

\* DateAdjustment::apply: the new date_time of the object and the f64 returned
\* Applied returning the default number in place of NaN
Applied_default(new) ==
  [date |-> new, ret |-> IF new.some THEN NumOfInstant(new) ELSE Num(0)]
Applied(new) == [date |-> new, ret |-> TimestampOf(new)]
\* apply computing from the epoch when the object holds no date
apply_from_epoch(a, object, tz) ==
  Applied(calculate(a, IF object.some THEN Inst(object.d, object.ms) ELSE Inst(0, 0), tz))
apply(a, object, tz) ==
  Applied(IF object.some THEN calculate(a, Inst(object.d, object.ms), tz) ELSE None)

(***************************************************************************)
(* Getters and string methods, as functions of the object's date_time and  *)
(* of the timezone they view it in.                                        *)
(***************************************************************************)
\* the common shape of the numeric getters: NaN for the Invalid Date
\* GetField with unwrap_or_default in place of the NaN
GetField_default(object, tz, f) ==
  IF object.some THEN Num(View(Inst(object.d, object.ms), tz)[f]) ELSE Num(0)
GetField(object, tz, f) ==
  IF object.some THEN Num(View(Inst(object.d, object.ms), tz)[f]) ELSE NaN

\* DateObject::value_of, behind time / getTime / valueOf
time_value(object) == TimestampOf(object)

\* offset().utc_minus_local() as f64 / 60.0, for offsets of whole minutes
\* timezone_offset_value returning local minus UTC
timezone_offset_value_east(object, tz) ==
  IF object.some
    THEN Num(View(Inst(object.d, object.ms), tz).offset \div 60)
    ELSE NaN
timezone_offset_value(object, tz) ==
  IF object.some
    THEN Num((-View(Inst(object.d, object.ms), tz).offset) \div 60)
    ELSE NaN

Str(chars) == [k |-> "str", d |-> 0, ms |-> 0, h |-> 0, s |-> chars]
InvalidDateText == <<"I", "n", "v", "a", "l", "i", "d", " ", "D", "a", "t", "e">>

DigitChars == <<"0", "1", "2", "3", "4", "5", "6", "7", "8", "9">>
RECURSIVE Dec(_)
\* the decimal digits of n >= 0, without padding
Dec(n) == IF n < 10 THEN <<DigitChars[n + 1]>>
          ELSE Dec(n \div 10) \o <<DigitChars[(n % 10) + 1]>>
\* two digits, zero padded (%H, %M, %S)
Pad2(n) == <<DigitChars[(n \div 10) + 1], DigitChars[(n % 10) + 1]>>
\* %a and %b
WeekdayNames == << <<"S", "u", "n">>, <<"M", "o", "n">>, <<"T", "u", "e">>,
                   <<"W", "e", "d">>, <<"T", "h", "u">>, <<"F", "r", "i">>,
                   <<"S", "a", "t">> >>
MonthNames == << <<"J", "a", "n">>, <<"F", "e", "b">>, <<"M", "a", "r">>,
                 <<"A", "p", "r">>, <<"M", "a", "y">>, <<"J", "u", "n">>,
                 <<"J", "u", "l">>, <<"A", "u", "g">>, <<"S", "e", "p">>,
                 <<"O", "c", "t">>, <<"N", "o", "v">>, <<"D", "e", "c">> >>
\* %T is %H:%M:%S on the 24-hour clock
FmtT(v) == Pad2(v.hour) \o <<":">> \o Pad2(v.minute) \o <<":">> \o Pad2(v.second)
\* %p
FmtP(v) == IF v.hour < 12 THEN <<"A", "M">> ELSE <<"P", "M">>
\* %z: the offset from UTC as +HHMM or -HHMM
FmtHHMM(sign, a) == sign \o Pad2(a \div 3600) \o Pad2((a % 3600) \div 60)
FmtZ(v) == IF v.offset < 0 THEN FmtHHMM(<<"-">>, -v.offset)
           ELSE FmtHHMM(<<"+">>, v.offset)
\* %-Y: no padding; a year outside 0..9999 carries an explicit sign
FmtY(v) ==
  IF 0 <= v.year /\ v.year < 10000 THEN Dec(v.year)
  ELSE IF v.year < 0 THEN <<"-">> \o Dec(-v.year)
  ELSE <<"+">> \o Dec(v.year)
\* "%a %b %-d"
FmtDate(v) == WeekdayNames[v.weekday + 1] \o <<" ">> \o MonthNames[v.month0 + 1]
              \o <<" ">> \o Dec(v.day)

\* date.format(pattern).to_string() of the six string methods
Format(op, v) ==
  CASE op = "to_string" ->
         FmtDate(v) \o <<" ">> \o FmtT(v) \o <<" ", "G", "M", "T">> \o FmtZ(v)
         \o <<" ">> \o FmtY(v)
    [] op = "to_locale_string" ->
         FmtDate(v) \o <<" ">> \o FmtY(v) \o <<" ">> \o FmtT(v) \o <<" ">> \o FmtP(v)
    [] op = "to_time_string" -> FmtT(v) \o <<" ", "G", "M", "T">> \o FmtZ(v)
    [] op = "to_locale_time_string" -> FmtT(v) \o <<" ">> \o FmtP(v)
    [] op = "to_date_string" -> FmtDate(v) \o <<" ">> \o FmtY(v)

StringOf(op, object, tz) ==
  IF object.some THEN Str(Format(op, View(Inst(object.d, object.ms), tz)))
  ELSE Str(InvalidDateText)

(***************************************************************************)
(* The arguments the calls of the model are made with.                     *)
(***************************************************************************)
\* the instant of a civil time in UTC
InstantOf(y, m, dd, hh, mi, ss, mmm) ==
  Inst(DaysFromCivil(y, m, dd),
       hh * MsPerHour + mi * MsPerMinute + ss * MsPerSecond + mmm)

\* what locale.get_current_date_time() returns
Now == InstantOf(2024, 6, 15, 10, 20, 30, 400)

\* instants given to the one-argument constructor and to setTime
SampleInstants ==
  { InstantOf(2023, 3, 15, 12, 30, 45, 500),
    InstantOf(2024, 3, 20, 8, 0, 0, 0),
    InstantOf(2024, 11, 15, 6, 7, 8, 9),
    Inst(-1, MsPerDay - 1) }
\* a finite number of milliseconds beyond the last representable instant
TooLate == [k |-> "num", d |-> MaxDays + 1, ms |-> 0, h |-> 0]
TimeValues ==
  {NumOfInstant(t) : t \in SampleInstants}
    \cup {NaN, PosInf, TooLate, PosHuge, NegHuge,
          [NumOfInstant(Inst(0, 1)) EXCEPT !.h = 1], Half(-1)}

\* an in-range value, a value below the range and a value above it, per field
Typical == [year |-> 2001, month |-> 7, day |-> 5, hour |-> 9, minute |-> 8,
            second |-> 6, millisecond |-> 10]
Below == [year |-> 5, month |-> -1, day |-> 0, hour |-> -1, minute |-> -1,
          second |-> -1, millisecond |-> -1]
Above == [year |-> 105, month |-> 13, day |-> 32, hour |-> 25, minute |-> 60,
          second |-> 60, millisecond |-> 1000]
\* finite values far outside the range of a field: 1e300 for every field but
\* the millisecond and, for the year, 2^32 + 2000 and a year the calendar
\* does not reach
Extreme(f) ==
  IF f = "year"
    THEN {PosHuge, [k |-> "num", d |-> 49, ms |-> 61369296, h |-> 0], Num(300000)}
  ELSE IF f = "millisecond" THEN {}
  ELSE {PosHuge}
\* 1.5 and -0.5: numbers with a fraction, above and below zero
Fractions == {Half(1), Half(-1)}
FirstValues(f) ==
  {Num(Typical[f]), Num(Below[f]), Num(Above[f]), NaN, Undefined}
    \cup Extreme(f) \cup Fractions

\* the non-finite argument used at each position of a longer list
BadAt == <<NaN, PosInf, NegInf, Undefined>>
\* the typical values of the fields fs[1..n]
TypicalArgs(fs, n) == [i \in 1..n |-> Num(Typical[fs[i]])]
\* argument lists for an entry point that feeds the fields fs: no argument,
\* one argument of every kind, longer lists with at most one non-finite
\* argument, and lists whose coercion raises an error
ArgLists(fs) ==
  {<<>>, <<Throwing>>}
    \cup {<<v>> : v \in FirstValues(fs[1])}
    \cup UNION {{TypicalArgs(fs, n)}
                  \cup {[TypicalArgs(fs, n) EXCEPT ![i] = BadAt[i]] : i \in 1..n} :
                n \in 2..Len(fs)}
    \cup (IF Len(fs) >= 2 THEN {<<NaN, Throwing>>} ELSE {})
    \cup (IF fs[1] = "year"
            THEN {<<Num(Typical.year), Num(Below.month)>>,
                  <<Num(Typical.year), Num(Above.month)>>}
            ELSE {})
    \* November, whose first local midnight of 2024 happens twice in DstZone
    \cup (IF fs[1] = "month" THEN {<<Num(10)>>} ELSE {})

(***************************************************************************)
(* State.                                                                  *)
(*   date_time    the DateObject's date_time: None is the Invalid Date     *)
(*   timezone     the timezone of the locale                               *)
(*   ret          what the last call returned                              *)
(*   last         the last call: entry point and arguments                 *)
(*   prev         date_time before the last call                           *)
(*   calls        calls of entry points made so far                        *)
(*   fault        a panic has aborted the program                          *)
(*   adj          the DateAdjustment the last call built                   *)
(*   fed          the Option values fed to adj, one by one                 *)
(*   written      the values the last call gave to set_date_time, in order *)
(***************************************************************************)
ErrorRet == [k |-> "error", d |-> 0, ms |-> 0, h |-> 0]
NoCall == [op |-> "none", args |-> <<>>]

\* The object under consideration was constructed earlier: it holds any of
\* the sample instants, or the Invalid Date.
Init ==
  /\ date_time \in {None} \cup {Some(t) : t \in SampleInstants}
  /\ timezone \in LocalTimeZones
  /\ ret = Undefined
  /\ last = NoCall
  /\ prev = None
  /\ calls = 0
  /\ fault = FALSE
  /\ adj = DateAdjustment_new
  /\ fed = <<>>
  /\ written = <<>>

\* the effect of a call of an entry point on the state
\* the date_time of an object that held `object` after the calls of
\* set_date_time with the values of writes, in order
Stored(object, writes) ==
  IF writes = <<>> THEN object ELSE writes[Len(writes)]

Step(op, args, writes, r, a, panicked) ==
  /\ ~fault
  /\ prev' = date_time
  /\ date_time' = Stored(date_time, writes)
  /\ written' = writes
  /\ ret' = r
  /\ last' = [op |-> op, args |-> args]
  /\ adj' = a
  /\ fault' = panicked
  /\ UNCHANGED <<timezone, fed>>

\* a call of a method of the object that returns r
Call(op, args, writes, r, a) ==
  /\ calls < MaxCalls
  /\ calls' = calls + 1
  /\ Step(op, args, writes, r, a, FALSE)

\* a call of a method that panics before it has written anything
Panic(op, args) ==
  /\ calls < MaxCalls
  /\ calls' = calls + 1
  /\ Step(op, args, <<>>, ret, adj, TRUE)

\* a component setter: DateAdjustment::new(tz).f1(args.get(0))?...apply(this)
SetterApplied(op, args, a, res) ==
  IF res.date = Aborted THEN Panic(op, args)
  ELSE Call(op, args, <<res.date>>, res.ret, a)
SetterFed(op, args, a, tz) ==
  IF a.err THEN Call(op, args, <<>>, ErrorRet, a)
  ELSE SetterApplied(op, args, a, apply(a, date_time, tz))
SetterCall(op, fs, tz, args) ==
  /\ calls < MaxCalls
  /\ \E a \in {FeedAll(DateAdjustment_new, fs, args, 0)} : SetterFed(op, args, a, tz)

GetterCall(op, r) == Call(op, <<>>, <<>>, r, adj)

(***************************************************************************)
(* Entry points.                                                           *)
(***************************************************************************)
\* argument lists of the instance constructor
CtorArgLists ==
  {<<>>}
    \cup {<<v>> : v \in TimeValues \cup {Undefined, Throwing}}
    \cup { <<Num(5), Num(0)>>, <<Num(105), Num(0)>>, <<Num(99), Num(13)>>,
           <<Num(100), Num(0)>>, <<Num(-5), Num(0)>>, <<Num(2024), Num(5)>>,
           <<Num(2024), Num(0), Num(15), Num(12), Num(30), Num(0), Num(0)>>,
           <<Num(2024), Num(1), Num(29), Num(23), Num(59), Num(59), Num(999)>>,
           <<Num(2024), Num(10), Num(1)>>, <<Num(2024), Num(2), Num(15)>>,
           <<Undefined, Num(5), Num(3)>>, <<NaN, Num(5)>>, <<Num(2024), NaN>>,
           <<Num(2024), Throwing>> }

\* Utc.timestamp_millis_opt(timestamp as i64)
timestamp_millis_opt(x) ==
  IF x.k = "big" THEN None
  ELSE IF Representable(AsI64(x)) THEN Some(AsI64(x)) ELSE None

\* instance_init runs on a freshly allocated object, whose date_time is None;
\* that object is the one under consideration from then on
Constructed(args, writes, r, a, panicked) ==
  /\ ~fault
  /\ prev' = None
  /\ date_time' = Stored(None, writes)
  /\ written' = writes
  /\ ret' = r
  /\ last' = [op |-> "instance_init", args |-> args]
  /\ adj' = a
  /\ fault' = panicked
  /\ UNCHANGED <<timezone, fed>>

\* the multi-argument form, from the starting value (year 0, January 1,
\* 00:00:00 local), which is written before the feeds run
InitApplied(args, start, a, res) ==
  \* a panic in calculate finds the base already written to the object
  IF res.date = Aborted THEN Constructed(args, <<start>>, ret, a, TRUE)
  ELSE Constructed(args, <<start, res.date>>, Undefined, a, FALSE)
InitAdjusted(args, start, a) == InitApplied(args, start, a, apply(a, start, timezone))
InitFed(args, start, fedAll) ==
  IF fedAll.err THEN Constructed(args, <<start>>, ErrorRet, fedAll, FALSE)
  ELSE InitAdjusted(args, start, adjust_year(fedAll))
InitFromBase(args, base) ==
  \* timezone.ymd(0, 1, 1) panics unless the local date is single
  IF Cardinality(base) # 1 THEN Constructed(args, <<>>, ret, adj, TRUE)
  ELSE \E a \in {FeedAll(DateAdjustment_new, Fields, args, 0)} :
         InitFed(args, Some(CHOOSE t \in base : TRUE), a)
\* the one-argument form
InitFromNumber(args, timestamp) ==
  IF is_finite(timestamp)
    THEN Constructed(args, <<timestamp_millis_opt(timestamp)>>, Undefined, adj, FALSE)
    ELSE Constructed(args, <<None>>, Undefined, adj, FALSE)
InitWith(args, timestamp) ==
  IF timestamp # Undefined
    THEN IF Len(args) > 1 THEN InitFromBase(args, Anchor(timezone, 0, 1))
         ELSE IF ~Coerces(timestamp) THEN Constructed(args, <<>>, ErrorRet, adj, FALSE)
         ELSE InitFromNumber(args, coerce_to_number(timestamp))
    ELSE Constructed(args, <<Some(Now)>>, Undefined, adj, FALSE)
InstanceInit(args) == InitWith(args, IF Len(args) > 0 THEN args[1] ELSE Undefined)

instance_init ==
  \E args \in CtorArgLists :
    /\ calls < MaxCalls
    /\ calls' = calls + 1
    /\ InstanceInit(args)

\* time / getTime / valueOf
time == GetterCall("time", time_value(date_time))

\* setTime and the setter of the time property
SetTimeTo(args, time_) ==
  \* Utc.timestamp_millis panics on an unrepresentable instant
  IF time_.some THEN Call("set_time", args, <<time_>>, TimestampOf(time_), adj)
  ELSE Panic("set_time", args)
SetTimeNumber(args, new_time) ==
  IF is_finite(new_time) THEN SetTimeTo(args, timestamp_millis_opt(new_time))
  ELSE Call("set_time", args, <<None>>, NaN, adj)
SetTimeWith(args, arg) ==
  IF ~Coerces(arg) THEN Call("set_time", args, <<>>, ErrorRet, adj)
  ELSE SetTimeNumber(args, coerce_to_number(arg))
set_time ==
  \E args \in {<<>>} \cup {<<v>> : v \in TimeValues \cup {Undefined, Throwing}} :
    SetTimeWith(args, IF Len(args) > 0 THEN args[1] ELSE Undefined)

\* local getters
milliseconds == GetterCall("milliseconds", GetField(date_time, timezone, "millisecond"))
seconds == GetterCall("seconds", GetField(date_time, timezone, "second"))
minutes == GetterCall("minutes", GetField(date_time, timezone, "minute"))
hours == GetterCall("hours", GetField(date_time, timezone, "hour"))
date == GetterCall("date", GetField(date_time, timezone, "day"))
month == GetterCall("month", GetField(date_time, timezone, "month0"))
full_year == GetterCall("full_year", GetField(date_time, timezone, "year"))
day == GetterCall("day", GetField(date_time, timezone, "weekday"))
timezone_offset ==
  GetterCall("timezone_offset", timezone_offset_value(date_time, timezone))

\* UTC getters
milliseconds_utc == GetterCall("milliseconds_utc", GetField(date_time, Utc, "millisecond"))
seconds_utc == GetterCall("seconds_utc", GetField(date_time, Utc, "second"))
minutes_utc == GetterCall("minutes_utc", GetField(date_time, Utc, "minute"))
hours_utc == GetterCall("hours_utc", GetField(date_time, Utc, "hour"))
date_utc == GetterCall("date_utc", GetField(date_time, Utc, "day"))
month_utc == GetterCall("month_utc", GetField(date_time, Utc, "month0"))
full_year_utc == GetterCall("full_year_utc", GetField(date_time, Utc, "year"))
day_utc == GetterCall("day_utc", GetField(date_time, Utc, "weekday"))

\* the component setters: the fields each feeds, in order, and whether it
\* adjusts in UTC or in the timezone of the locale
Setters ==
  [set_milliseconds |-> [fs |-> <<"millisecond">>, utc |-> FALSE],
   set_seconds |-> [fs |-> <<"second", "millisecond">>, utc |-> FALSE],
   set_minutes |-> [fs |-> <<"minute", "second", "millisecond">>, utc |-> FALSE],
   set_hours |-> [fs |-> <<"hour", "minute", "second", "millisecond">>, utc |-> FALSE],
   set_date |-> [fs |-> <<"day">>, utc |-> FALSE],
   set_month |-> [fs |-> <<"month", "day">>, utc |-> FALSE],
   set_full_year |-> [fs |-> <<"year", "month", "day">>, utc |-> FALSE],
   set_milliseconds_utc |-> [fs |-> <<"millisecond">>, utc |-> TRUE],
   set_seconds_utc |-> [fs |-> <<"second", "millisecond">>, utc |-> TRUE],
   set_minutes_utc |-> [fs |-> <<"minute", "second", "millisecond">>, utc |-> TRUE],
   set_hours_utc |-> [fs |-> <<"hour", "minute", "second", "millisecond">>, utc |-> TRUE],
   set_date_utc |-> [fs |-> <<"day">>, utc |-> TRUE],
   set_month_utc |-> [fs |-> <<"month", "day">>, utc |-> TRUE],
   set_full_year_utc |-> [fs |-> <<"year", "month", "day">>, utc |-> TRUE]]
\* the timezone a setter builds its DateAdjustment with
ZoneOf(op) == IF Setters[op].utc THEN Utc ELSE timezone

\* local setters
set_milliseconds ==
  \E args \in ArgLists(Setters.set_milliseconds.fs) :
    SetterCall("set_milliseconds", Setters.set_milliseconds.fs, ZoneOf("set_milliseconds"), args)
set_seconds ==
  \E args \in ArgLists(Setters.set_seconds.fs) :
    SetterCall("set_seconds", Setters.set_seconds.fs, ZoneOf("set_seconds"), args)
set_minutes ==
  \E args \in ArgLists(Setters.set_minutes.fs) :
    SetterCall("set_minutes", Setters.set_minutes.fs, ZoneOf("set_minutes"), args)
set_hours ==
  \E args \in ArgLists(Setters.set_hours.fs) :
    SetterCall("set_hours", Setters.set_hours.fs, ZoneOf("set_hours"), args)
set_date ==
  \E args \in ArgLists(Setters.set_date.fs) :
    SetterCall("set_date", Setters.set_date.fs, ZoneOf("set_date"), args)
set_month ==
  \E args \in ArgLists(Setters.set_month.fs) :
    SetterCall("set_month", Setters.set_month.fs, ZoneOf("set_month"), args)
set_full_year ==
  \E args \in ArgLists(Setters.set_full_year.fs) :
    SetterCall("set_full_year", Setters.set_full_year.fs, ZoneOf("set_full_year"), args)

\* UTC setters
set_milliseconds_utc ==
  \E args \in ArgLists(Setters.set_milliseconds_utc.fs) :
    SetterCall("set_milliseconds_utc", Setters.set_milliseconds_utc.fs, ZoneOf("set_milliseconds_utc"), args)
set_seconds_utc ==
  \E args \in ArgLists(Setters.set_seconds_utc.fs) :
    SetterCall("set_seconds_utc", Setters.set_seconds_utc.fs, ZoneOf("set_seconds_utc"), args)
set_minutes_utc ==
  \E args \in ArgLists(Setters.set_minutes_utc.fs) :
    SetterCall("set_minutes_utc", Setters.set_minutes_utc.fs, ZoneOf("set_minutes_utc"), args)
set_hours_utc ==
  \E args \in ArgLists(Setters.set_hours_utc.fs) :
    SetterCall("set_hours_utc", Setters.set_hours_utc.fs, ZoneOf("set_hours_utc"), args)
set_date_utc ==
  \E args \in ArgLists(Setters.set_date_utc.fs) :
    SetterCall("set_date_utc", Setters.set_date_utc.fs, ZoneOf("set_date_utc"), args)
set_month_utc ==
  \E args \in ArgLists(Setters.set_month_utc.fs) :
    SetterCall("set_month_utc", Setters.set_month_utc.fs, ZoneOf("set_month_utc"), args)
set_full_year_utc ==
  \E args \in ArgLists(Setters.set_full_year_utc.fs) :
    SetterCall("set_full_year_utc", Setters.set_full_year_utc.fs, ZoneOf("set_full_year_utc"), args)

\* string methods
to_string == GetterCall("to_string", StringOf("to_string", date_time, timezone))
to_locale_string ==
  GetterCall("to_locale_string", StringOf("to_locale_string", date_time, timezone))
to_time_string ==
  GetterCall("to_time_string", StringOf("to_time_string", date_time, timezone))
to_locale_time_string ==
  GetterCall("to_locale_time_string", StringOf("to_locale_time_string", date_time, timezone))
to_date_string ==
  GetterCall("to_date_string", StringOf("to_date_string", date_time, timezone))

\* argument lists of the static UTC factory
UtcArgLists ==
  { <<>>, <<Num(2024)>>, <<Num(5), Num(0)>>, <<Num(2024), Num(13)>>,
    <<Num(2024), Num(0), Num(15), Num(12), Num(30), Num(0), Num(0)>>,
    <<Num(2024), NaN>>, <<Undefined>>, <<Num(2024), Throwing>> }

\* the UTC class method storing the instant it computes in the object
UtcCalculated_applying(args, a, new) ==
  IF new = Aborted THEN Step("utc", args, <<>>, ret, a, TRUE)
  ELSE Step("utc", args, <<new>>, TimestampOf(new), a, FALSE)
\* the UTC class method: the object, if any, is not touched
UtcCalculated(args, a, new) ==
  IF new = Aborted THEN Step("utc", args, <<>>, ret, a, TRUE)
  ELSE Step("utc", args, <<>>, TimestampOf(new), a, FALSE)
UtcFed(args, a) ==
  IF a.err THEN Step("utc", args, <<>>, ErrorRet, a, FALSE)
  ELSE UtcCalculated(args, a, calculate(a, InstantOf(0, 1, 1, 0, 0, 0, 0), Utc))
UtcCall(args) ==
  \E a \in {FeedAll(DateAdjustment_new, Fields, args, 0)} : UtcFed(args, a)

utc ==
  \E args \in UtcArgLists :
    /\ calls < MaxCalls
    /\ calls' = calls + 1
    /\ UtcCall(args)

Next ==
  \/ instance_init
  \/ time
  \/ set_time
  \/ milliseconds \/ seconds \/ minutes \/ hours \/ date \/ month \/ full_year
  \/ day \/ timezone_offset
  \/ milliseconds_utc \/ seconds_utc \/ minutes_utc \/ hours_utc \/ date_utc
  \/ month_utc \/ full_year_utc \/ day_utc
  \/ set_milliseconds \/ set_seconds \/ set_minutes \/ set_hours \/ set_date
  \/ set_month \/ set_full_year
  \/ set_milliseconds_utc \/ set_seconds_utc \/ set_minutes_utc \/ set_hours_utc
  \/ set_date_utc \/ set_month_utc \/ set_full_year_utc
  \/ utc
  \/ to_string \/ to_locale_string \/ to_time_string \/ to_locale_time_string
  \/ to_date_string

Spec == Init /\ [][Next]_vars

(***************************************************************************)
(* SpecFeed: one DateAdjustment driven feed by feed, as its builder        *)
(* methods allow: the fields are fed in the canonical order, starting at   *)
(* any field, each with None or with a value, and then apply runs.         *)
(***************************************************************************)
FieldIndex(f) == CHOOSE i \in 1..Len(Fields) : Fields[i] = f
\* the slot name of a field as a field of the civil view
ViewName(f) == IF f = "month" THEN "month0" ELSE f

\* the object's own value of field f, as seen in the timezone of the locale
Own(f) == Num(View(Inst(date_time.d, date_time.ms), timezone)[ViewName(f)])
FeedValues(f) == {Absent, Num(Typical[f]), NaN, Own(f)}

InitFeed ==
  /\ \E p \in { <<InstantOf(2023, 3, 15, 12, 30, 45, 500), Utc>>,
               <<InstantOf(2023, 3, 15, 12, 30, 45, 500), FixedWest>>,
               <<InstantOf(2024, 3, 20, 8, 0, 0, 0), DstZone>> } :
       date_time = Some(p[1]) /\ timezone = p[2]
  /\ ret = Undefined
  /\ last = NoCall
  /\ prev = None
  /\ calls = 0
  /\ fault = FALSE
  /\ adj = DateAdjustment_new
  /\ fed = <<>>
  /\ written = <<>>

\* one builder method, called with None or Some(value)
FeedStep(f) ==
  /\ last.op = "none"
  /\ ~adj.err
  /\ IF Len(fed) = 0 THEN TRUE
     ELSE FieldIndex(fed[Len(fed)].f) + 1 = FieldIndex(f)
  /\ \E v \in FeedValues(f) :
       /\ adj' = Feed(adj, f, v)
       /\ fed' = Append(fed, [f |-> f, v |-> v])
  /\ UNCHANGED <<date_time, timezone, ret, last, prev, calls, fault, written>>

DateAdjustment_year == FeedStep("year")
DateAdjustment_month == FeedStep("month")
DateAdjustment_day == FeedStep("day")
DateAdjustment_hour == FeedStep("hour")
DateAdjustment_minute == FeedStep("minute")
DateAdjustment_second == FeedStep("second")
DateAdjustment_millisecond == FeedStep("millisecond")

ApplyStep(res) ==
  /\ date_time' = res.date
  /\ written' = <<res.date>>
  /\ ret' = res.ret
  /\ prev' = date_time
  /\ last' = [op |-> "apply", args |-> <<>>]
  /\ UNCHANGED <<timezone, calls, fault, adj, fed>>
DateAdjustment_apply ==
  /\ last.op = "none"
  /\ ~adj.err
  /\ ApplyStep(apply(adj, date_time, timezone))

NextFeed ==
  \/ DateAdjustment_year \/ DateAdjustment_month \/ DateAdjustment_day
  \/ DateAdjustment_hour \/ DateAdjustment_minute \/ DateAdjustment_second
  \/ DateAdjustment_millisecond
  \/ DateAdjustment_apply

SpecFeed == InitFeed /\ [][NextFeed]_vars

(***************************************************************************)
(* SpecUtc: the static factory is called with in-range civil fields and    *)
(* the number it returns is given to the one-argument constructor.         *)
(***************************************************************************)
DaysInMonth(y, m0) ==
  IF m0 = 1 THEN (IF IsLeap(y) THEN 29 ELSE 28)
  ELSE IF m0 \in {3, 5, 8, 10} THEN 30 ELSE 31

CivilArgLists ==
  { <<Num(y), Num(m0), Num(dd), Num(t[1]), Num(t[2]), Num(t[3]), Num(t[4])>> :
      y \in {-1, 5, 1969, 2024}, m0 \in {0, 1, 11}, dd \in {1, 15, 28, 29, 31},
      t \in {<<0, 0, 0, 0>>, <<12, 30, 0, 0>>, <<23, 59, 59, 999>>} }

InitUtc ==
  /\ date_time = None
  /\ timezone \in LocalTimeZones
  /\ ret = Undefined
  /\ last = NoCall
  /\ prev = None
  /\ calls = 0
  /\ fault = FALSE
  /\ adj = DateAdjustment_new
  /\ fed = <<>>
  /\ written = <<>>

utc_of_civil ==
  \E args \in CivilArgLists :
    /\ AsInt(args[3]) <= DaysInMonth(AsInt(args[1]), AsInt(args[2]))
    /\ last.op = "none"
    /\ UNCHANGED calls
    /\ UtcCall(args)

init_from_utc ==
  /\ last.op = "utc"
  /\ calls < MaxCalls
  /\ calls' = calls + 1
  /\ InstanceInit(<<ret>>)

NextUtc == utc_of_civil \/ init_from_utc

SpecUtc == InitUtc /\ [][NextUtc]_vars

(***************************************************************************)
(* Properties.                                                             *)
(***************************************************************************)
\* the civil views of the object before and after the last operation
ViewBefore(tz) == View(Inst(prev.d, prev.ms), tz)
ViewAfter(tz) == View(Inst(date_time.d, date_time.ms), tz)
SameIn(p, c, f) == c[ViewName(f)] = p[ViewName(f)]

\* the position in fed of the first omitted value, Len(fed) + 1 when none is
Omitted == {i \in 1..Len(fed) : fed[i].v = Absent}
FirstOmitted ==
  IF Omitted = {} THEN Len(fed) + 1
  ELSE CHOOSE i \in Omitted : \A j \in Omitted : i <= j

\* the slots of the adjustment, given the position of the first omission:
\* a value fed before it is held coerced, every field from it on is
\* unspecified whatever was fed
SlotsCascade(k) ==
  \A i \in 1..Len(fed) :
    IF i < k THEN adj[fed[i].f] = coerce_to_number(fed[i].v)
    ELSE adj[fed[i].f] = Unspecified
\* the fields from position k on read the same before and after apply
KeptFrom(k, p, c) == \A i \in k..Len(fed) : SameIn(p, c, fed[i].f)
FiniteBefore(k) == \A i \in 1..(k - 1) : is_finite(fed[i].v)
CascadeAt(k) ==
  /\ SlotsCascade(k)
  /\ (last.op = "apply" /\ IsFixed(timezone) /\ k <= Len(fed) /\ FiniteBefore(k))
       => /\ date_time.some
          /\ KeptFrom(k, ViewBefore(timezone), ViewAfter(timezone))

\* C1: once a field in the canonical order is omitted, every later field is
\* treated as unspecified even when a value (NaN included) was given for it,
\* and the applied date keeps the object's own value in each of them
C1_Cascade == CascadeAt(FirstOmitted)

\* year given, month omitted, day 5 and hour NaN given after it: the date
\* stays valid and keeps its month, day and hour
C1_Witness ==
  /\ last.op = "apply"
  /\ Len(fed) = 4
  /\ fed[1] = [f |-> "year", v |-> Num(2001)]
  /\ fed[2] = [f |-> "month", v |-> Absent]
  /\ fed[3] = [f |-> "day", v |-> Num(5)]
  /\ fed[4] = [f |-> "hour", v |-> NaN]
  /\ date_time.some
  /\ date_time = Some(Inst(prev.d - 8035, prev.ms))

\* C6: feeding a valid date's own seven local fields back through the
\* adjuster leaves the date at the instant it had
FedOwn(p) ==
  /\ Len(fed) = 7
  /\ \A i \in 1..7 : fed[i].v = Num(p[ViewName(fed[i].f)])
C6_Idempotent ==
  (last.op = "apply" /\ prev.some /\ FedOwn(ViewBefore(timezone)))
    => date_time = prev

\* the last operation was a component setter that returned normally
IsSetter(op) == op \in DOMAIN Setters
SetterReturned == IsSetter(last.op) /\ ~fault /\ ret.k # "error"
\* the arguments of the last call that reached a feed
Supplied == 1..(IF Len(last.args) < Len(Setters[last.op].fs)
                  THEN Len(last.args) ELSE Len(Setters[last.op].fs))
NonFiniteSupplied == \E i \in Supplied : ~is_finite(coerce_to_number(last.args[i]))
\* a number of at most four digits, and every argument fed being one
Modest(x) == FitsI32(x) /\ AsInt(x) \in -9999..9999
ModestSupplied == \A i \in Supplied : Modest(last.args[i])
\* the fields of the setter that no argument was given for
OmittedFields == {Setters[last.op].fs[i] : i \in (Len(last.args) + 1)..Len(Setters[last.op].fs)}
\* an omitted field is unspecified in the adjustment and, the day of the
\* month existing in every month, reads after the call as it did before
OmittedKept(p, c) ==
  \A f \in OmittedFields : adj[f] = Unspecified /\ (p.day <= 28 => SameIn(p, c, f))

\* C2: a component setter called on a valid date with an argument that
\* coerces to NaN or an infinity (undefined included) before the first omitted
\* one makes the date Invalid and returns NaN, whereas an omitted argument
\* keeps the field the date had
C2_NonFiniteInvalidates ==
  (SetterReturned /\ prev.some)
    => IF NonFiniteSupplied THEN ~date_time.some /\ ret = NaN
       ELSE (IsFixed(ZoneOf(last.op)) /\ ModestSupplied)
              => /\ date_time.some
                 /\ OmittedKept(ViewBefore(ZoneOf(last.op)), ViewAfter(ZoneOf(last.op)))

\* setHours(7, Infinity) on a valid date
C2_Witness ==
  /\ last.op = "set_hours"
  /\ Len(last.args) = 2
  /\ last.args[2] = PosInf
  /\ prev.some
  /\ ~date_time.some
  /\ ret = NaN

ReadOnlyOps ==
  {"time", "milliseconds", "seconds", "minutes", "hours", "date", "month",
   "full_year", "day", "timezone_offset", "milliseconds_utc", "seconds_utc",
   "minutes_utc", "hours_utc", "date_utc", "month_utc", "full_year_utc",
   "day_utc", "to_string", "to_locale_string", "to_time_string",
   "to_locale_time_string", "to_date_string"}
FiniteTimeGiven ==
  /\ Len(last.args) >= 1
  /\ Coerces(last.args[1])
  /\ is_finite(coerce_to_number(last.args[1]))

\* C3: an Invalid date stays Invalid through every getter, string method
\* and component setter, each such setter returning NaN, and only setTime
\* with a finite argument makes it valid again
C3_InvalidSticky ==
  (~prev.some /\ ~fault)
    => /\ (last.op \in ReadOnlyOps => ~date_time.some)
       /\ (IsSetter(last.op) => ~date_time.some /\ ret \in {NaN, ErrorRet})
       /\ (last.op = "set_time" => (date_time.some <=> FiniteTimeGiven))

\* setFullYear(2001, 7, 5) on the Invalid Date
C3_Witness ==
  /\ last.op = "set_full_year"
  /\ last.args = <<Num(2001), Num(7), Num(5)>>
  /\ ~prev.some
  /\ ~date_time.some
  /\ ret = NaN

NumericGetters ==
  {"milliseconds", "seconds", "minutes", "hours", "date", "month",
   "full_year", "day", "timezone_offset", "milliseconds_utc", "seconds_utc",
   "minutes_utc", "hours_utc", "date_utc", "month_utc", "full_year_utc",
   "day_utc"}
StringMethods ==
  {"to_string", "to_locale_string", "to_time_string", "to_locale_time_string",
   "to_date_string"}

\* C4: a numeric field getter returns NaN exactly when the date is Invalid
\* and a number otherwise, and a string method returns the text
\* "Invalid Date" exactly when the date is Invalid
C4_Sentinel ==
  /\ last.op \in NumericGetters
       => IF date_time.some THEN ret.k = "num" ELSE ret = NaN
  /\ last.op \in StringMethods
       => /\ ret.k = "str"
          /\ (ret.s = InvalidDateText <=> ~date_time.some)

C4_Witness ==
  /\ last.op = "to_locale_time_string"
  /\ ~date_time.some
  /\ ret.k = "str"
  /\ ret.s = InvalidDateText

\* C10: a component setter returns the epoch milliseconds of the instant it
\* has written, NaN exactly when it has written the Invalid Date, and
\* getTime reads that same number back
C10_SetterReturn ==
  /\ SetterReturned
       => IF date_time.some
            THEN ret = [k |-> "num", d |-> date_time.d, ms |-> date_time.ms, h |-> 0]
            ELSE ret = NaN
  /\ (last.op = "time" /\ date_time.some)
       => /\ ret = [k |-> "num", d |-> date_time.d, ms |-> date_time.ms, h |-> 0]
          /\ prev = date_time

\* setSeconds(6) on 2023-03-15T12:30:45.500Z returns 1678883406500
C10_Witness ==
  /\ last.op = "set_seconds_utc"
  /\ last.args = <<Num(6)>>
  /\ prev = Some(Inst(19431, 45045500))
  /\ date_time = Some(Inst(19431, 45006500))
  /\ ret = [k |-> "num", d |-> 19431, ms |-> 45006500, h |-> 0]

\* the date moved to February of the next year, everything below the month
\* reading as before
RolledToFebruary(p, c) ==
  /\ c.year = p.year + 1
  /\ c.month0 = 1
  /\ c.day = p.day
  /\ c.hour = p.hour
  /\ c.minute = p.minute
  /\ c.second = p.second
  /\ c.millisecond = p.millisecond
SetMonth13 ==
  /\ last.op \in {"set_month", "set_month_utc"}
  /\ last.args = <<Num(13)>>
  /\ prev.some
  /\ ~fault

\* C5 as stated: setMonth(13) or setUTCMonth(13) on a valid date of year Y, in
\* any month and on any day, gives February of Y+1 with the same day of the
\* month, hour, minute, second and millisecond
C5_AnyDay ==
  SetMonth13
    => /\ date_time.some
       /\ RolledToFebruary(ViewBefore(ZoneOf(last.op)), ViewAfter(ZoneOf(last.op)))

\* the offset of tz from UTC is the same throughout month m (1..12) of year y
SteadyIn(tz, y, m) ==
  \/ IsFixed(tz)
  \/ \A x \in {tz.from, tz.to} :
       \/ x.d < DaysFromCivil(y, m, 1) - 1
       \/ x.d > DaysFromCivil(y, m, 1) + 32
RollsFrom(p, z) == p.day <= 28 /\ SteadyIn(z, p.year + 1, 2)

\* C5: setUTCMonth(13), or setMonth(13) in a local timezone whose offset does
\* not change during February of Y+1, on a valid date of year Y whose day of
\* the month is at most 28 gives February of Y+1 with the same day of the
\* month, hour, minute, second and millisecond
C5_MonthOverflow ==
  (SetMonth13 /\ RollsFrom(ViewBefore(ZoneOf(last.op)), ZoneOf(last.op)))
    => /\ date_time.some
       /\ RolledToFebruary(ViewBefore(ZoneOf(last.op)), ViewAfter(ZoneOf(last.op)))

\* setUTCMonth(13) on 2023-03-15T12:30:45.500Z gives 2024-02-15T12:30:45.500Z
C5_Witness ==
  /\ last.op = "set_month_utc"
  /\ last.args = <<Num(13)>>
  /\ prev = Some(Inst(19431, 45045500))
  /\ date_time = Some(Inst(19768, 45045500))

\* the constructor was given a year that is not negative and a month
YearAndMonthGiven ==
  /\ last.op = "instance_init"
  /\ ~fault
  /\ Len(last.args) >= 2
  /\ is_finite(last.args[1])
  /\ is_finite(last.args[2])
  /\ AsInt(last.args[1]) >= 0
  /\ date_time.some
TwoDigit(y) == IF y <= 99 THEN 1900 + y ELSE y

\* C7: the constructor called with two or more arguments reads a year
\* 0 <= y <= 99 as 1900 + y and a year y >= 100 as y, and adds the years the
\* month carries to the year so mapped
C7_TwoDigitYear ==
  YearAndMonthGiven
    => ViewAfter(timezone).year
         = TwoDigit(AsInt(last.args[1])) + (AsInt(last.args[2]) \div 12)

\* new Date(99, 13) is in February 2000
C7_Witness ==
  /\ last.op = "instance_init"
  /\ last.args = <<Num(99), Num(13)>>
  /\ date_time.some
  /\ ViewAfter(timezone).year = 2000
  /\ ViewAfter(timezone).month0 = 1

\* the value calculate resolves field f to: the one fed, else the current one
Resolved(f, p) == IF adj[f] = Unspecified THEN p[ViewName(f)] ELSE AsInt(adj[f])
\* the instant that lies day - 1 days, hour hours, minute minutes, second
\* seconds and millisecond milliseconds before instant t
Rewound(t, dy, hr, mi, sc, ml) ==
  AddMs(Inst(t.d - (dy - 1), t.ms),
        0 - (hr * MsPerHour + mi * MsPerMinute + sc * MsPerSecond + ml))
IsFirstMidnight(v, y, m0) ==
  /\ v.year = y
  /\ v.month0 = m0
  /\ v.day = 1
  /\ v.hour = 0 /\ v.minute = 0 /\ v.second = 0 /\ v.millisecond = 0
\* the instant written lies the flat duration after the first midnight, in
\* zone z, of the resolved month of the resolved year
FlatDurationAdded(p, z) ==
  IsFirstMidnight(
    View(Rewound(date_time, Resolved("day", p), Resolved("hour", p),
                 Resolved("minute", p), Resolved("second", p),
                 Resolved("millisecond", p)), z),
    Resolved("year", p) + (Resolved("month", p) \div 12),
    Resolved("month", p) % 12)

SetDateTo(n) ==
  /\ last.op \in {"set_date", "set_date_utc"}
  /\ last.args = <<Num(n)>>
  /\ prev.some /\ date_time.some
\* the last day of the month before the one of p
IsLastOfPrevious(p, c) ==
  /\ c.month0 = (p.month0 + 11) % 12
  /\ c.year = (IF p.month0 = 0 THEN p.year - 1 ELSE p.year)
  /\ c.day = DaysInMonth(c.year, c.month0)
\* day 32 counted from the first of the month of p, in the month after it
IsInFollowing(p, c) ==
  /\ c.month0 = (p.month0 + 1) % 12
  /\ c.year = (IF p.month0 = 11 THEN p.year + 1 ELSE p.year)
  /\ c.day = 32 - DaysInMonth(p.year, p.month0)

\* setters of one clock field called with one finite argument
ClockUnits ==
  [set_hours |-> MsPerHour, set_hours_utc |-> MsPerHour,
   set_minutes |-> MsPerMinute, set_minutes_utc |-> MsPerMinute,
   set_seconds |-> MsPerSecond, set_seconds_utc |-> MsPerSecond,
   set_milliseconds |-> 1, set_milliseconds_utc |-> 1]
ClockFieldSet ==
  /\ last.op \in DOMAIN ClockUnits
  /\ Len(last.args) = 1
  /\ Modest(last.args[1])
  /\ IsFixed(ZoneOf(last.op))
  /\ prev.some /\ date_time.some
\* the date moved by the difference between the value set and the value held
MovedBy(p, f, unit) ==
  date_time = Some(AddMs(Inst(prev.d, prev.ms),
                         (AsInt(last.args[1]) - p[f]) * unit))

\* the first midnight the flat duration was added to
AnchorOf(p) ==
  Rewound(date_time, Resolved("day", p), Resolved("hour", p),
          Resolved("minute", p), Resolved("second", p),
          Resolved("millisecond", p))
\* the offset in force at the instant written is the one in force at the
\* first midnight of the resolved month
OffsetKept(p, z) ==
  OffsetAt(z, AnchorOf(p)) = OffsetAt(z, Inst(date_time.d, date_time.ms))

C8_RoundTrip ==
  last.op = "instance_init"
    => /\ date_time.some
       /\ is_finite(last.args[1])
       /\ time_value(date_time) = last.args[1]
       /\ \A i \in 1..Len(Fields) :
            GetField(date_time, Utc, ViewName(Fields[i])) = adj[Fields[i]]

\* UTC(2024, 0, 15, 12, 30, 0, 0) is 1705321800000
C8_Witness ==
  /\ last.op = "instance_init"
  /\ last.args = <<[k |-> "num", d |-> 19737, ms |-> 45000000, h |-> 0]>>
  /\ adj.year = Num(2024) /\ adj.month = Num(0) /\ adj.day = Num(15)
  /\ adj.hour = Num(12) /\ adj.minute = Num(30)
  /\ adj.second = Num(0) /\ adj.millisecond = Num(0)
  /\ GetField(date_time, Utc, "hour") = Num(12)

\* C11: setTime given a finite number, however large, never aborts: it ends
\* normally, the object holding the instant of that number or the Invalid
\* Date
C11_SetTimeNoFatal ==
  (last.op = "set_time" /\ Len(last.args) = 1 /\ is_finite(last.args[1]))
    => /\ ~fault
       /\ date_time \in {None, timestamp_millis_opt(last.args[1])}

\* C12: a component setter given finite arguments, however large, never
\* aborts: calculate ends normally, with the Invalid Date for a day, hour,
\* minute or second the durations cannot hold
HugeSupplied ==
  \E i \in Supplied :
    last.args[i].k = "big" /\ Setters[last.op].fs[i] \notin {"year", "month"}
C12_SettersNoFatal ==
  (IsSetter(last.op) /\ \A i \in Supplied : is_finite(last.args[i]))
    => /\ ~fault
       /\ (prev.some /\ HugeSupplied) => ~date_time.some

\* the three argument forms of the constructor
CtorReturned == last.op = "instance_init" /\ ~fault /\ ret.k # "error"
StoresNow == date_time = Some(Now)
StoresEpochMs(x) ==
  date_time = (IF is_finite(x) THEN timestamp_millis_opt(x) ELSE None)
\* the arguments evaluated as calendar components: the adjustment has taken
\* the first argument as the year and the second as the month
StoresComponents ==
  /\ adj.year = coerce_to_number(last.args[1])
  /\ adj.month = coerce_to_number(last.args[2])
  /\ (~is_finite(adj.year) \/ ~is_finite(adj.month)) => ~date_time.some

\* C13: the constructor stores the current instant when called with no
\* argument, the instant of the epoch milliseconds when called with one, and
\* the instant of the calendar components when called with two or more,
\* whatever the first argument is, undefined included
C13_CtorDispatch ==
  CtorReturned
    => CASE Len(last.args) = 0 -> StoresNow
         [] Len(last.args) = 1 -> StoresEpochMs(coerce_to_number(last.args[1]))
         [] OTHER -> StoresComponents

\* the year and, when given, the month of the last call are numbers of at
\* most four digits
YearGiven ==
  /\ Len(last.args) >= 1
  /\ \A i \in 1..Len(last.args) : i <= 2 => Modest(last.args[i])
  /\ \A i \in 1..Len(last.args) : is_finite(last.args[i])
\* the year the arguments name: the year as given, and the years the month
\* carries
YearNamed ==
  AsInt(last.args[1]) + (IF Len(last.args) >= 2 THEN AsInt(last.args[2]) \div 12 ELSE 0)
FullYearSetters == {"set_full_year", "set_full_year_utc"}
UtcReturned == last.op = "utc" /\ ~fault /\ ret.k # "error"

\* C14: setFullYear, setUTCFullYear and the UTC factory take the year as it
\* is given, a year below 100 included; only the constructor called with two
\* or more arguments reads such a year as 1900 + y
C14_YearUnchanged ==
  /\ (last.op \in FullYearSetters /\ SetterReturned /\ prev.some /\ YearGiven)
       => /\ adj.year_type = "Full"
          /\ date_time.some
          /\ ViewAfter(ZoneOf(last.op)).year = YearNamed
  /\ (UtcReturned /\ YearGiven)
       => /\ adj.year_type = "Full"
          /\ ret.k = "num"
          /\ View(AsI64(ret), Utc).year = YearNamed
  /\ (CtorReturned /\ Len(last.args) >= 2 /\ YearGiven)
       => adj.year_type = "Adjust"

\* setFullYear(5) on a valid date gives a date in year 5
C14_Witness ==
  /\ last.op = "set_full_year"
  /\ last.args = <<Num(5)>>
  /\ prev.some
  /\ date_time.some
  /\ ViewAfter(timezone).year = 5

\* C15: every entry point, the constructor in each of its argument forms
\* included, writes the date_time of the object at most once during a call
C15_OneMutation == Len(written) <= 1

\* the starting value of the multi-argument constructor: year 0, January 1,
\* 00:00:00 in the timezone of the locale
SyntheticBase == Some(CHOOSE t \in Anchor(timezone, 0, 1) : TRUE)
\* the last call was a setter or the constructor and ended by propagating the
\* error of a coercion
CoercionFailed ==
  /\ IsSetter(last.op) \/ last.op = "instance_init"
  /\ ~fault
  /\ ret.k = "error"

\* C16: after a setter or constructor call the object holds the instant it
\* held before, the one instant resolved from all the fields fed, or the
\* Invalid Date; a call ended by the error of a coercion leaves it as it was,
\* and never with the starting value of the constructor
C16_NoPartial ==
  /\ CoercionFailed => date_time = prev
  /\ SetterReturned => date_time = apply(adj, prev, ZoneOf(last.op)).date
  /\ (CtorReturned /\ Len(last.args) >= 2 /\ last.args[1] # Undefined)
       => date_time = apply(adj, SyntheticBase, timezone).date

\* the field of the civil view each local getter reads; its UTC counterpart
\* reads the same field
LocalGetterField ==
  [milliseconds |-> "millisecond", seconds |-> "second", minutes |-> "minute",
   hours |-> "hour", date |-> "day", month |-> "month0", full_year |-> "year",
   day |-> "weekday"]
IsLocalGetter(op) == op \in DOMAIN LocalGetterField
\* the reading of the local clock at the object's instant, as a naive instant
LocalClock ==
  AddMs(Inst(date_time.d, date_time.ms),
        OffsetAt(timezone, Inst(date_time.d, date_time.ms)) * MsPerSecond)
\* instant a minus instant b in whole minutes, for instants of close days
MinutesBetween(a, b) == (a.d - b.d) * 1440 + (a.ms - b.ms) \div MsPerMinute
UtcMinusLocal == MinutesBetween(Inst(date_time.d, date_time.ms), LocalClock)
\* the object's instant moved back by m minutes
ShiftedBack(m) == Some(AddMs(Inst(date_time.d, date_time.ms), -(m * MsPerMinute)))
LocalReads(op, tzo) ==
  /\ ret = GetField(ShiftedBack(tzo), Utc, LocalGetterField[op])
  /\ tzo = 0 => ret = GetField(date_time, Utc, LocalGetterField[op])

\* C17: for a valid date timezoneOffset returns UTC minus local time in
\* minutes, positive when the local clock is behind UTC; a local getter
\* returns the field of the civil time that many minutes before the UTC one,
\* so with an offset of zero it returns what its UTC counterpart returns
C17_LocalView ==
  /\ (last.op = "timezone_offset" /\ date_time.some)
       => /\ ret = Num(UtcMinusLocal)
          /\ AsInt(ret) > 0 <=> Before(LocalClock, Inst(date_time.d, date_time.ms))
  /\ (IsLocalGetter(last.op) /\ date_time.some)
       => LocalReads(last.op, AsInt(timezone_offset_value(date_time, timezone)))

\* five hours west of Greenwich timezoneOffset is 300 and, at 12:30 UTC,
\* the local hour is 7
C17_Witness ==
  /\ last.op = "hours"
  /\ date_time = Some(InstantOf(2023, 3, 15, 12, 30, 45, 500))
  /\ timezone_offset_value(date_time, timezone) = Num(300)
  /\ ret = Num(7)

\* the number the two characters of text s at positions i and i + 1 spell
DigitOf(c) == CHOOSE n \in 0..9 : DigitChars[n + 1] = c
TwoDigitsAt(s, i) == 10 * DigitOf(s[i]) + DigitOf(s[i + 1])
\* the hour of the day on the 12-hour clock
Hour12(h) == IF h % 12 = 0 THEN 12 ELSE h % 12
\* toLocaleString and toLocaleTimeString end in HH:MM:SS and the marker;
\* toTimeString begins with the time, and toString has it after the date
ClockAt(op, s, v) ==
  CASE op \in {"to_locale_string", "to_locale_time_string"} -> Len(s) - 10
    [] op = "to_time_string" -> 1
    [] op = "to_string" -> Len(FmtDate(v)) + 2
MarkerOf(s) == SubSeq(s, Len(s) - 1, Len(s))
TwelveHourText(op, s, v) ==
  /\ TwoDigitsAt(s, ClockAt(op, s, v)) = Hour12(v.hour)
  /\ MarkerOf(s) = (IF v.hour < 12 THEN <<"A", "M">> ELSE <<"P", "M">>)

\* C18: toLocaleString and toLocaleTimeString show the local hour on the
\* 12-hour clock (13..23 as 1..11, 0 as 12) with AM or PM, and toString and
\* toTimeString show it on the 24-hour clock
C18_TwelveHour ==
  /\ (last.op \in {"to_locale_string", "to_locale_time_string"} /\ date_time.some)
       => TwelveHourText(last.op, ret.s, ViewAfter(timezone))
  /\ (last.op \in {"to_string", "to_time_string"} /\ date_time.some)
       => TwoDigitsAt(ret.s, ClockAt(last.op, ret.s, ViewAfter(timezone)))
            = ViewAfter(timezone).hour

MonthSetters == {"set_month", "set_month_utc", "set_full_year", "set_full_year_utc"}
\* a setter that feeds the month has returned on a valid date, every argument
\* it was given being a finite integer
MonthSetterReturned ==
  /\ last.op \in MonthSetters
  /\ SetterReturned
  /\ prev.some
  /\ \A i \in Supplied : is_finite(last.args[i]) /\ last.args[i].h = 0
\* the years the month fed carries, none when no month was fed
MonthCarry == IF adj.month = Unspecified THEN 0 ELSE AsInt(adj.month) \div 12
\* the year named, plus the carry, and the month reduced into 0..11
NormalisedFrom(p, c) ==
  /\ c.year = Resolved("year", p) + MonthCarry
  /\ c.month0 = Resolved("month", p) % 12
\* the day of the month the call resolves to exists in every month
DayInEveryMonth(p) == Resolved("day", p) \in 1..28

TargetMonthSteady(p, z) ==
  SteadyIn(z, Resolved("year", p) + MonthCarry, (Resolved("month", p) % 12) + 1)

YearOutOfRange(x) ==
  /\ is_finite(x)
  /\ \/ ~FitsI32(x)
     \/ AsInt(x) < MinYear
     \/ AsInt(x) > MaxYear
\* setFullYear or setUTCFullYear was called on a valid date with such a year
\* as its one argument
OutOfRangeYearSet ==
  /\ last.op \in FullYearSetters
  /\ SetterReturned
  /\ prev.some
  /\ Len(last.args) = 1
  /\ YearOutOfRange(last.args[1])

\* C20: a finite year outside the 32-bit signed range, or outside the years
\* the calendar represents, makes the date Invalid and the setter return NaN;
\* it is never reduced modulo 2^32 to a year of the calendar
C20_YearOutOfRange ==
  OutOfRangeYearSet => (~date_time.some /\ ret = NaN)

\* C21: the multi-argument constructor maps only the years 0..99; a year
\* outside that range, a negative one in particular, is the calendar year of
\* the date constructed (plus the years the month carries)
C21_OnlyTwoDigitYears ==
  (/\ CtorReturned
   /\ Len(last.args) >= 2
   /\ Modest(last.args[1]) /\ Modest(last.args[2])
   /\ AsInt(last.args[1]) \notin 0..99
   /\ date_time.some)
    => ViewAfter(timezone).year = AsInt(last.args[1]) + (AsInt(last.args[2]) \div 12)

\* the civil fields of the base instant: year 0, January 1, 00:00:00.000
BaseField ==
  [year |-> 0, month |-> 0, day |-> 1, hour |-> 0, minute |-> 0, second |-> 0,
   millisecond |-> 0]
AllModest == \A i \in 1..Len(last.args) : Modest(last.args[i])
\* in the civil view c every field no argument was given for reads as in the
\* base instant
DefaultsFromBase(c) ==
  \A i \in (Len(last.args) + 1)..Len(Fields) :
    c[ViewName(Fields[i])] = BaseField[Fields[i]]
\* the month the arguments resolve to, with the year after the constructor's
\* transform, has a steady offset in the timezone of the locale
CtorMonthSteady ==
  SteadyIn(timezone,
           TwoDigit(AsInt(last.args[1])) + (AsInt(last.args[2]) \div 12),
           (AsInt(last.args[2]) % 12) + 1)

LocalAt(t, off) == AddMs(t, off * MsPerSecond)
Within(x, lo, hi) == ~Before(x, lo) /\ Before(x, hi)
\* the local times the clocks of tz skip when they go forward, and the ones
\* they show twice when they go back
Nonexistent(tz, local) ==
  Within(local, LocalAt(tz.from, tz.std), LocalAt(tz.from, tz.dst))
Ambiguous(tz, local) ==
  Within(local, LocalAt(tz.to, tz.std), LocalAt(tz.to, tz.dst))
\* local midnight of the first day of the month calculate resolves for view p
FirstMidnight(p) ==
  Inst(DaysFromCivil(Resolved("year", p) + (Resolved("month", p) \div 12),
                     (Resolved("month", p) % 12) + 1, 1), 0)
AnchorTested(p, z) ==
  date_time.some <=> (~Nonexistent(z, FirstMidnight(p)) /\ ~Ambiguous(z, FirstMidnight(p)))

\* C23: a setter given representable components leaves the date Invalid
\* exactly when midnight of the first day of the resolved month is a local
\* time that the target timezone skips or shows twice; neither offset is
\* picked for it, and the wall-clock time reached by adding the duration
\* plays no part
C23_AnchorOnly ==
  (SetterReturned /\ prev.some /\ ModestSupplied)
    => AnchorTested(ViewBefore(ZoneOf(last.op)), ZoneOf(last.op))

\* setMonth(7) on 2023-03-15T12:30:45.500Z where local midnight of
\* 2023-08-01 is skipped leaves the date Invalid and returns NaN
C23_Witness ==
  /\ last.op = "set_month"
  /\ last.args = <<Num(7)>>
  /\ prev = Some(InstantOf(2023, 3, 15, 12, 30, 45, 500))
  /\ Nonexistent(timezone, Inst(DaysFromCivil(2023, 8, 1), 0))
  /\ ~date_time.some
  /\ ret = NaN

\* setHours(25) on 2024-03-20T08:00:00Z, local 00:00 on March 20, reaches
\* local 01:00 on March 21, which the zone shows twice, and the date is valid
C23_TargetTwice ==
  /\ last.op = "set_hours"
  /\ last.args = <<Num(25)>>
  /\ prev = Some(InstantOf(2024, 3, 20, 8, 0, 0, 0))
  /\ date_time = Some(InstantOf(2024, 3, 21, 9, 0, 0, 0))
  /\ Ambiguous(timezone, LocalAt(Inst(date_time.d, date_time.ms), OffsetAt(timezone, Inst(date_time.d, date_time.ms))))

\* setMonth(10) on a date of 2024 where local midnight of 2024-11-01 happens
\* twice leaves the date Invalid
C23_AnchorTwice ==
  /\ last.op = "set_month"
  /\ last.args = <<Num(10)>>
  /\ prev.some
  /\ Ambiguous(timezone, Inst(DaysFromCivil(2024, 11, 1), 0))
  /\ ~date_time.some

\* the range of each civil field a getter returns
GetterRange ==
  [millisecond |-> 0..999, second |-> 0..59, minute |-> 0..59, hour |-> 0..23,
   day |-> 1..31, month0 |-> 0..11, weekday |-> 0..6]
InRange(v) == \A f \in DOMAIN GetterRange : v[f] \in GetterRange[f]
\* the civil field that each ranged getter reads, and the timezone it reads in
RangedGetters ==
  [milliseconds |-> "millisecond", seconds |-> "second", minutes |-> "minute",
   hours |-> "hour", date |-> "day", month |-> "month0", day |-> "weekday",
   milliseconds_utc |-> "millisecond", seconds_utc |-> "second",
   minutes_utc |-> "minute", hours_utc |-> "hour", date_utc |-> "day",
   month_utc |-> "month0", day_utc |-> "weekday"]

InRangeFor(f, v, p) ==
  CASE f = "millisecond" -> v \in 0..999
    [] f \in {"second", "minute"} -> v \in 0..59
    [] f = "hour" -> v \in 0..23
    [] f = "day" -> v \in 1..DaysInMonth(p.year, p.month0)
    [] f = "month" -> v \in 0..11 /\ p.day <= DaysInMonth(p.year, v)
    [] f = "year" -> v \in (MinYear + 1)..(MaxYear - 1) /\ p.day <= DaysInMonth(v, p.month0)
\* a setter was given one in-range value for its first field on a valid
\* date, its timezone having a fixed offset
SingleInRange(p) ==
  /\ SetterReturned
  /\ prev.some
  /\ IsFixed(ZoneOf(last.op))
  /\ Len(last.args) = 1
  /\ last.args[1].k = "num" /\ last.args[1].h = 0
  /\ FitsI32(last.args[1])
  /\ InRangeFor(Setters[last.op].fs[1], AsInt(last.args[1]), p)
\* field f reads v afterwards and every other civil field reads as before
FrameKept(f, v, p, c) ==
  /\ c[ViewName(f)] = v
  /\ \A i \in 1..Len(Fields) : Fields[i] # f => SameIn(p, c, Fields[i])

\* C25: a setter of a fixed-offset view given a single in-range value v for
\* its first field on a valid date leaves a valid date whose matching field
\* in that view is v and whose other civil fields in that view are unchanged
C25_SetGetFrame ==
  SingleInRange(ViewBefore(ZoneOf(last.op)))
    => /\ date_time.some
       /\ FrameKept(Setters[last.op].fs[1], AsInt(last.args[1]),
                    ViewBefore(ZoneOf(last.op)), ViewAfter(ZoneOf(last.op)))

\* setHours(9) on 2023-03-15T12:30:45.500Z five hours west of Greenwich,
\* local 07:30:45.500, gives local 09:30:45.500 of the same day
C25_Witness ==
  /\ last.op = "set_hours"
  /\ last.args = <<Num(9)>>
  /\ timezone = FixedWest
  /\ prev = Some(InstantOf(2023, 3, 15, 12, 30, 45, 500))
  /\ date_time = Some(InstantOf(2023, 3, 15, 14, 30, 45, 500))

\* a setter was called with no argument on a valid date, the offset of its
\* timezone being fixed
NoArguments ==
  /\ SetterReturned
  /\ last.args = <<>>
  /\ prev.some
  /\ IsFixed(ZoneOf(last.op))

\* C26: a component setter called with no arguments on a valid date in a
\* fixed-offset timezone leaves every slot of the adjustment unspecified and
\* the instant unchanged, and returns the epoch milliseconds of that
\* instant, not NaN
C26_NoArgumentNoOp ==
  NoArguments
    => /\ \A i \in 1..Len(Fields) : adj[Fields[i]] = Unspecified
       /\ date_time = prev
       /\ ret = NumOfInstant(prev)

\* setMonth() on 2024-11-15T06:07:08.009Z five hours west of Greenwich
\* returns its epoch milliseconds and leaves the date as it was
C26_Witness ==
  /\ last.op = "set_month"
  /\ last.args = <<>>
  /\ timezone = FixedWest
  /\ prev = Some(InstantOf(2024, 11, 15, 6, 7, 8, 9))
  /\ date_time = prev
  /\ ret = NumOfInstant(InstantOf(2024, 11, 15, 6, 7, 8, 9))

\* the one-argument constructor or setTime has returned; setTime called with
\* no argument coerces undefined
TimeGiven ==
  /\ ~fault
  /\ ret.k # "error"
  /\ \/ last.op = "instance_init" /\ Len(last.args) = 1
     \/ last.op = "set_time"
TimeArgument ==
  coerce_to_number(IF Len(last.args) > 0 THEN last.args[1] ELSE Undefined)
\* the instant of t truncated toward zero to whole milliseconds is stored,
\* and setTime returns it
StoresTruncated(t) ==
  /\ date_time = Some(AsI64(t))
  /\ last.op = "set_time" => ret = NumOfInstant(AsI64(t))
LeavesInvalid ==
  /\ ~date_time.some
  /\ last.op = "set_time" => ret = NaN

\* C27: setTime and the constructor called with one argument both store,
\* for a finite representable argument t, the instant of t truncated toward
\* zero, setTime returning that value, and both leave the date Invalid for
\* an argument that coerces to NaN or an infinity, setTime then returning
\* NaN; the local timezone plays no part
C27_SetTimeAsCtor ==
  TimeGiven
    => /\ (is_finite(TimeArgument) /\ timestamp_millis_opt(TimeArgument).some)
            => StoresTruncated(TimeArgument)
       /\ ~is_finite(TimeArgument) => LeavesInvalid

\* the same for every argument but an undefined one given to the constructor
C27_DefinedArgument ==
  (TimeGiven /\ ~(last.op = "instance_init" /\ last.args = <<Undefined>>))
    => /\ (is_finite(TimeArgument) /\ timestamp_millis_opt(TimeArgument).some)
            => StoresTruncated(TimeArgument)
       /\ ~is_finite(TimeArgument) => LeavesInvalid

\* setTime(-0.5) stores the instant of the epoch and returns 0
C27_TruncatedToZero ==
  /\ last.op = "set_time"
  /\ last.args = <<Half(-1)>>
  /\ date_time = Some(Inst(0, 0))
  /\ ret = Num(0)

\* a local setter has returned, the offset of the local timezone being fixed
LocalSetterReturned ==
  /\ SetterReturned
  /\ ~Setters[last.op].utc
  /\ IsFixed(timezone)
\* a date moved by s seconds, the Invalid Date staying Invalid
Shifted(object, s) ==
  IF object.some THEN Some(AddMs(Inst(object.d, object.ms), s * MsPerSecond))
  ELSE None
\* the adjustment of the call applied in UTC to the date shifted by the
\* offset, and the date it gives shifted back
ThroughUtc(o) == Shifted(apply(adj, Shifted(prev, o), Utc).date, -o)

\* C28: under a fixed offset o a local setter leaves the date that comes of
\* shifting the date by o, applying the UTC setter with the same arguments
\* and shifting back, Invalid giving Invalid, and returns its epoch
\* milliseconds; with o = 0 the date and the return value are those of the
\* UTC setter
C28_LocalRefinesUtc ==
  LocalSetterReturned
    => /\ date_time = ThroughUtc(timezone.std)
       /\ ret = TimestampOf(date_time)
       /\ timezone.std = 0
            => /\ date_time = apply(adj, prev, Utc).date
               /\ ret = apply(adj, prev, Utc).ret

\* setHours(25) on 2023-03-15T12:30:45.500Z five hours west of Greenwich,
\* local 07:30:45.500, gives local 01:30:45.500 on March 16
C28_Witness ==
  /\ last.op = "set_hours"
  /\ last.args = <<Num(25)>>
  /\ timezone = FixedWest
  /\ prev = Some(InstantOf(2023, 3, 15, 12, 30, 45, 500))
  /\ date_time = Some(InstantOf(2023, 3, 16, 6, 30, 45, 500))

\* the integer that n + 0.5 is truncated to toward zero
TowardZero(n) == IF n >= 0 THEN n ELSE n + 1
\* the whole part, rounded down, of the one argument of the last call
WholeBelow == IntOfI64([d |-> last.args[1].d, ms |-> last.args[1].ms])
\* a setter was given one argument with a fraction on a valid date, the
\* offset of its timezone being fixed
FractionGiven ==
  /\ SetterReturned
  /\ prev.some
  /\ IsFixed(ZoneOf(last.op))
  /\ Len(last.args) = 1
  /\ last.args[1].k = "num" /\ last.args[1].h = 1
\* the call did what it does for the integer v
SetAsInteger(f, v, p, c) ==
  /\ InRangeFor(f, v, p) => FrameKept(f, v, p, c)
  /\ (f = "day" /\ v = 0) => IsLastOfPrevious(p, c)
  /\ (f = "month" /\ p.day <= 28)
       => c.month0 = v % 12 /\ c.year = p.year + (v \div 12)

\* C29: a component with a fraction is truncated toward zero before anything
\* is computed from it, 1.5 counting as 1 and -0.5 as 0, and the month and
\* the years it carries come of the truncated integer, so that setMonth(-0.5)
\* gives month 0 of the current year
C29_TruncatedFirst ==
  FractionGiven
    => /\ adj[Setters[last.op].fs[1]] = last.args[1]
       /\ date_time.some
       /\ SetAsInteger(Setters[last.op].fs[1], TowardZero(WholeBelow),
                       ViewBefore(ZoneOf(last.op)), ViewAfter(ZoneOf(last.op)))

\* setUTCMonth(-0.5) on 2023-03-15T12:30:45.500Z gives 2023-01-15T12:30:45.500Z
C29_Witness ==
  /\ last.op = "set_month_utc"
  /\ last.args = <<Half(-1)>>
  /\ prev = Some(InstantOf(2023, 3, 15, 12, 30, 45, 500))
  /\ date_time = Some(InstantOf(2023, 1, 15, 12, 30, 45, 500))

\* C30: the getters, getTime and valueOf, the string methods and the static
\* UTC factory write nothing to the date: it is afterwards what it was
\* before the call, whatever the arguments and whatever is returned
C30_ReadOnly ==
  last.op \in ReadOnlyOps \cup {"utc"}
    => /\ written = <<>>
       /\ date_time = prev

\* UTC(2024, 0, 15, 12, 30, 0, 0) called where a date holds
\* 2023-03-15T12:30:45.500Z returns the epoch milliseconds of
\* 2024-01-15T12:30:00Z and leaves that date as it was
C30_Witness ==
  /\ last.op = "utc"
  /\ Len(last.args) = 7
  /\ ret = NumOfInstant(InstantOf(2024, 1, 15, 12, 30, 0, 0))
  /\ prev = Some(InstantOf(2023, 3, 15, 12, 30, 45, 500))
  /\ date_time = prev
====
